---------------------------- MODULE Spec2Model ----------------------------
(***************************************************************************)
(* A model of the customer-service repository.  The repository holds       *)
(* three variants of one service that keep the same in-memory store:       *)
(*                                                                         *)
(*   "kafka"     src/src/index.ts          GET and PATCH, profile-updated  *)
(*                                         events through a lazily         *)
(*                                         connected Kafka producer        *)
(*   "mqtt"      src/unnamed/part_001      adds POST and GET preferences   *)
(*               (part_000 is its build)   and the per-call MQTT notifier  *)
(*   "consumer"  src/src/index.js:62-330   analytics through Kafka, the    *)
(*                                         sync-request consumer, start()  *)
(*                                                                         *)
(* JavaScript runs one callback at a time, so every action below is one    *)
(* run-to-completion segment of a handler: from the arrival of a request   *)
(* or the settling of a network promise to the next network call.  An      *)
(* await of a promise that is already settled is continued in the same     *)
(* segment, because no I/O callback can run before the microtask queue is  *)
(* empty.                                                                  *)
(***************************************************************************)
EXTENDS Naturals, Sequences, FiniteSets, TLC

(***************************************************************************)
(* Bounds of the model.                                                    *)
(***************************************************************************)
\* HTTP requests issued in one run, all of which may be in flight together
MaxReqs == 2
\* inbound sync-request messages delivered in one run
MaxMsgs == 2

Reqs == 1..MaxReqs

(***************************************************************************)
(* Strings are sequences of characters, so that includes('@') and the      *)
(* template `${customerId}@example.com` are computed, not assumed.         *)
(***************************************************************************)
Missing == <<"m", "i", "s", "s", "i", "n", "g">>
ExampleCom == <<"@", "e", "x", "a", "m", "p", "l", "e", ".", "c", "o", "m">>
STANDARD == <<"S", "T", "A", "N", "D", "A", "R", "D">>
GOLD == <<"G", "O", "L", "D">>
PLATINUM == <<"P", "L", "A", "T", "I", "N", "U", "M">>
SILVER == <<"S", "I", "L", "V", "E", "R">>
EnUS == <<"e", "n", "-", "U", "S">>
FrFR == <<"f", "r", "-", "F", "R">>
DeDE == <<"d", "e", "-", "D", "E">>
Yes == <<"y", "e", "s">>
ABCom == <<"a", "@", "b", ".", "c", "o", "m">>
NoAt == <<"a", ".", "b">>
Cust1 == <<"c", "1">>
Req1 == <<"r", "1">>
Req2 == <<"r", "2">>
Stamp == <<"2", "0", "2", "4">>

includes(s, ch) == \E i \in DOMAIN s : s[i] = ch

(***************************************************************************)
(* JavaScript values, tagged with what typeof answers.                     *)
(***************************************************************************)
JsUndefined == [t |-> "undefined", b |-> FALSE, s |-> <<>>]
JsNumber == [t |-> "number", b |-> FALSE, s |-> <<>>]
JsBoolean(x) == [t |-> "boolean", b |-> x, s |-> <<>>]
JsString(x) == [t |-> "string", b |-> FALSE, s |-> x]
typeof(v) == v.t

\* String(b) of a boolean b
StringOfBoolean(v) ==
    IF v.b THEN JsString(<<"t", "r", "u", "e">>)
    ELSE JsString(<<"f", "a", "l", "s", "e">>)

\* a faulty variant: every draw gives the same identifier
randomUUID_Constant(n) == <<"u", "u", "i", "d", "-", "1">>

\* randomUUID(): the n-th identifier drawn; no two draws are equal, and none
\* equals an identifier a client can name before it was drawn
Digit(n) == <<"0", "1", "2", "3", "4", "5", "6", "7", "8", "9">>[n + 1]
randomUUID(n) == <<"u", "u", "i", "d", "-", Digit(n)>>

(***************************************************************************)
(* Customers.                                                              *)
(***************************************************************************)
NoPreferences == [newsletter |-> JsUndefined, language |-> JsUndefined]
NoCustomer ==
    [id |-> <<>>, email |-> JsUndefined, tier |-> JsUndefined,
     preferences |-> NoPreferences]

\* a faulty variant: the default record is made with the newsletter off
defaultCustomer_NewsletterOff(customerId) ==
    [id |-> customerId,
     email |-> JsString(customerId \o ExampleCom),
     tier |-> JsString(STANDARD),
     preferences |-> [newsletter |-> JsBoolean(FALSE), language |-> JsString(EnUS)]]

\* defaultCustomer
defaultCustomer(customerId) ==
    [id |-> customerId,
     email |-> JsString(customerId \o ExampleCom),
     tier |-> JsString(STANDARD),
     preferences |-> [newsletter |-> JsBoolean(TRUE), language |-> JsString(EnUS)]]

\* customerStore.get(customerId) || defaultCustomer(customerId)
getOrDefault(store, customerId) ==
    IF customerId \in DOMAIN store THEN store[customerId]
    ELSE defaultCustomer(customerId)

\* customerStore.set(key, value)
storeSet(store, key, value) ==
    [k \in DOMAIN store \cup {key} |-> IF k = key THEN value ELSE store[k]]

(***************************************************************************)
(* Request bodies.  hasPreferences says whether payload.preferences is an  *)
(* object; payload.preferences?.x is undefined when it is not.             *)
(***************************************************************************)
Body(email, tier, hasPreferences, newsletter, language) ==
    [email |-> email, tier |-> tier, hasPreferences |-> hasPreferences,
     newsletter |-> newsletter, language |-> language]

EmptyBody == Body(JsUndefined, JsUndefined, FALSE, JsUndefined, JsUndefined)

PatchPayloads ==
    { Body(JsUndefined, JsUndefined, FALSE, JsBoolean(FALSE), JsString(FrFR)),
      Body(JsUndefined, JsUndefined, FALSE, JsBoolean(TRUE), JsString(DeDE)),
      Body(JsUndefined, JsUndefined, FALSE, JsString(Yes), JsString(FrFR)),
      Body(JsUndefined, JsUndefined, FALSE, JsBoolean(TRUE), JsNumber),
      EmptyBody }

PostPayloads ==
    { Body(JsString(ABCom), JsString(GOLD), TRUE, JsBoolean(FALSE), JsString(FrFR)),
      Body(JsString(ABCom), JsString(PLATINUM), TRUE, JsBoolean(TRUE), JsString(DeDE)),
      Body(JsString(NoAt), JsString(GOLD), TRUE, JsBoolean(FALSE), JsString(FrFR)),
      Body(JsNumber, JsString(GOLD), TRUE, JsBoolean(FALSE), JsString(FrFR)),
      Body(JsString(ABCom), JsString(SILVER), TRUE, JsBoolean(FALSE), JsString(FrFR)),
      Body(JsString(ABCom), JsUndefined, TRUE, JsBoolean(FALSE), JsString(FrFR)),
      Body(JsString(ABCom), JsString(GOLD), TRUE, JsString(Yes), JsString(FrFR)),
      Body(JsString(ABCom), JsString(GOLD), TRUE, JsBoolean(FALSE), JsNumber),
      Body(JsString(ABCom), JsString(GOLD), FALSE, JsUndefined, JsUndefined),
      EmptyBody }

\* payload.preferences?.newsletter and payload.preferences?.language
prefNewsletter(payload) == IF payload.hasPreferences THEN payload.newsletter ELSE JsUndefined
prefLanguage(payload) == IF payload.hasPreferences THEN payload.language ELSE JsUndefined

\* a faulty variant: the 400 branch without its test for an '@' in the email
InvalidCustomerPayload_AnyEmail(payload) ==
    \/ typeof(payload.email) # "string"
    \/ (payload.tier # JsString(STANDARD) /\ payload.tier # JsString(GOLD)
          /\ payload.tier # JsString(PLATINUM))
    \/ typeof(prefNewsletter(payload)) # "boolean"
    \/ typeof(prefLanguage(payload)) # "string"

\* a faulty variant: the 400 branch without its test of the tier
InvalidCustomerPayload_AnyTier(payload) ==
    \/ typeof(payload.email) # "string"
    \/ ~includes(payload.email.s, "@")
    \/ typeof(prefNewsletter(payload)) # "boolean"
    \/ typeof(prefLanguage(payload)) # "string"

\* the condition of the 400 branch of POST /customers
InvalidCustomerPayload(payload) ==
    \/ typeof(payload.email) # "string"
    \/ ~includes(payload.email.s, "@")
    \/ (payload.tier # JsString(STANDARD) /\ payload.tier # JsString(GOLD)
          /\ payload.tier # JsString(PLATINUM))
    \/ typeof(prefNewsletter(payload)) # "boolean"
    \/ typeof(prefLanguage(payload)) # "string"

\* a faulty variant: the 400 branch without its test of the language
InvalidPreferencesPayload_NewsletterOnly(payload) ==
    typeof(payload.newsletter) # "boolean"

\* the condition of the 400 branch of PATCH /customers/:customerId/preferences
InvalidPreferencesPayload(payload) ==
    \/ typeof(payload.newsletter) # "boolean"
    \/ typeof(payload.language) # "string"

\* the record POST /customers builds
newCustomer(id, payload) ==
    [id |-> id, email |-> payload.email, tier |-> payload.tier,
     preferences |-> [newsletter |-> payload.newsletter,
                      language |-> payload.language]]

\* a faulty variant: PATCH builds its record from the default, not from the stored one
updatedCustomer_FromDefault(existing, payload) ==
    [defaultCustomer(existing.id) EXCEPT
        !.preferences = [newsletter |-> payload.newsletter,
                         language |-> payload.language]]

\* a faulty variant: PATCH merges into the stored preferences and keeps their language
updatedCustomer_KeepLanguage(existing, payload) ==
    [existing EXCEPT !.preferences = [newsletter |-> payload.newsletter,
                                      language |-> existing.preferences.language]]

\* the record PATCH builds: { ...existing, preferences: {newsletter, language} }
updatedCustomer(existing, payload) ==
    [existing EXCEPT !.preferences = [newsletter |-> payload.newsletter,
                                      language |-> payload.language]]


(***************************************************************************)
(* Events.  eventId, notificationId (each a randomUUID() of its own) and   *)
(* the timestamps are left out: no branch of the program reads them.       *)
(***************************************************************************)
NoEvent == [customerId |-> <<>>, tier |-> JsUndefined]

\* a faulty variant: the event declares the default tier, not the customer's
profileUpdatedEvent_DefaultTier(customer) ==
    [customerId |-> customer.id, tier |-> defaultCustomer(customer.id).tier]

\* the event publishCustomerProfileUpdated builds before its first await
profileUpdatedEvent(customer) == [customerId |-> customer.id, tier |-> customer.tier]

NoNotification == [requestId |-> <<>>, title |-> "none", priority |-> "none"]

analyticsNotification(requestId, title) ==
    [requestId |-> requestId, title |-> title, priority |-> "NORMAL"]

(***************************************************************************)
(* HTTP responses.                                                         *)
(***************************************************************************)
NoBody == [kind |-> "none", customer |-> NoCustomer, preferences |-> NoPreferences]
JsonError == [kind |-> "error", customer |-> NoCustomer, preferences |-> NoPreferences]
JsonCustomer(c) == [kind |-> "customer", customer |-> c, preferences |-> NoPreferences]
JsonPreferences(p) == [kind |-> "preferences", customer |-> NoCustomer, preferences |-> p]

(***************************************************************************)
(* The state.                                                              *)
(***************************************************************************)
VARIABLES
    variant,              \* which of the three index files runs
    customerStore,        \* the Map: a function from the stored ids to records
    lastWrite,            \* history: per stored id, the request that set it last
    kafkaConnected,       \* the flag of ensureProducerConnected
    connectCalls,         \* history: how often producer.connect() was invoked
    startPc,              \* where start() is; "listening" once app.listen ran
    exitCode,             \* 0 while the process runs, else process.exit's code
    uuids,                \* how many customer ids randomUUID() has drawn
    req,                  \* per HTTP request: its handler's position and locals
    last,                 \* the exchange the latest step answered, if it answered one
    mqtt,                 \* per HTTP request: the MQTT client its notifier opened
    sync,                 \* the eachMessage handler's position and locals
    profileUpdatedTopic,  \* what the broker took on customer.profile.updated
    replyTopic            \* what the broker took on the sync reply topic

vars ==
    <<variant, customerStore, lastWrite, kafkaConnected, connectCalls, startPc,
      exitCode, uuids, req, last, mqtt, sync, profileUpdatedTopic, replyTopic>>

\* a handler that has not started; one that has responded is "gone"
NoReq ==
    [pc |-> "idle", n |-> 0, kind |-> "none", customerId |-> <<>>,
     payload |-> EmptyBody, updated |-> NoCustomer, event |-> NoEvent,
     status |-> 0, body |-> NoBody,
     profileSends |-> 0, profileOutcome |-> "none",
     analyticsCalls |-> 0, analyticsOutcome |-> "none"]
Gone == [NoReq EXCEPT !.pc = "gone"]

NoClient ==
    [open |-> FALSE, completed |-> FALSE, timeout |-> "none", connectSeen |-> FALSE,
     publish |-> "none", errorSeen |-> FALSE, ends |-> 0, endedBy |-> "none",
     payload |-> NoNotification]

\* payload.message.value: none or '' ("empty"), text that is no JSON ("text"),
\* or a JSON object with these three fields ("json")
Raw(kind, requestId, customerId, requestedAt) ==
    [kind |-> kind, requestId |-> requestId, customerId |-> customerId,
     requestedAt |-> requestedAt]
NoRaw == Raw("none", JsUndefined, JsUndefined, JsUndefined)

NoRequest == [requestId |-> <<>>, customerId |-> <<>>, requestedAt |-> <<>>]
NoReply ==
    [requestId |-> <<>>, customerId |-> <<>>, status |-> "none",
     preferenceVersion |-> 0, hasPreferences |-> FALSE, preferences |-> NoPreferences]

NoSync ==
    [pc |-> "idle", handled |-> 0, raw |-> NoRaw, request |-> NoRequest,
     customer |-> NoCustomer,
     lookedUpStored |-> FALSE, event |-> NoEvent, reply |-> NoReply,
     outcome |-> "none"]

EmptyStore == [k \in {} |-> NoCustomer]
NoWrite == [by |-> 0, kind |-> "none", payload |-> EmptyBody]
NoWrites == [k \in {} |-> NoWrite]

\* the state every variant shares once its module body has run
InitCommon ==
    /\ customerStore = EmptyStore
    /\ lastWrite = NoWrites
    /\ kafkaConnected = FALSE
    /\ exitCode = 0
    /\ uuids = 0
    /\ req = [r \in Reqs |-> NoReq]
    /\ last = NoReq
    /\ mqtt = [r \in Reqs |-> NoClient]
    /\ sync = NoSync
    /\ profileUpdatedTopic = {}
    /\ replyTopic = {}

\* index.ts and part_001 call app.listen at once and connect nothing
InitKafka == variant = "kafka" /\ startPc = "listening" /\ connectCalls = 0 /\ InitCommon
InitMqtt == variant = "mqtt" /\ startPc = "listening" /\ connectCalls = 0 /\ InitCommon
\* index.js calls start(), which runs up to its first await: producer.connect()
InitConsumer ==
    variant = "consumer" /\ startPc = "producerConnect" /\ connectCalls = 1 /\ InitCommon

Init == InitKafka \/ InitMqtt \/ InitConsumer

(***************************************************************************)
(* What a client can put in a URL: a name of its own, the reserved id, or  *)
(* an id a POST has returned.                                              *)
(***************************************************************************)
UrlIds == {Cust1, Missing} \cup {randomUUID(n) : n \in 1..uuids}

Listening == startPc = "listening" /\ exitCode = 0

\* requests are numbered in the order they arrive
Arrives(r) ==
    /\ Listening
    /\ req[r].pc = "idle"
    /\ IF r = 1 THEN TRUE ELSE req[r - 1].pc # "idle"

\* res.status(status).json(body), the handler's last statement
respond(rq, status, body) == [rq EXCEPT !.pc = "done", !.status = status, !.body = body]

\* a faulty variant: the reserved id is served once a record is stored under it
isReserved_UnlessStored(customerId) ==
    customerId = Missing /\ customerId \notin DOMAIN customerStore

\* the customerId === 'missing' test of both GET routes
isReserved(customerId) == customerId = Missing

\* the last statement of a POST or PATCH handler
respondCreated(rq) == respond(rq, 201, JsonCustomer(rq.updated))
\* a faulty variant: the 200 body is read from the store when the response is sent
respondUpdated_FromStore(rq) ==
    respond(rq, 200, JsonPreferences(customerStore[rq.customerId].preferences))

respondUpdated(rq) == respond(rq, 200, JsonPreferences(rq.updated.preferences))
\* a faulty variant: a failed publish turns the response into a 500
finish_FailOnPublishError(rq) ==
    IF rq.profileOutcome = "failed" \/ rq.analyticsOutcome = "failed"
    THEN respond(rq, 500, JsonError)
    ELSE IF rq.kind = "POST" THEN respondCreated(rq) ELSE respondUpdated(rq)

finish(rq) == IF rq.kind = "POST" THEN respondCreated(rq) ELSE respondUpdated(rq)

\* the handler of request r ends with `exchange`: its request and response
Answered(r, exchange) ==
    /\ req' = [req EXCEPT ![r] = Gone]
    /\ last' = exchange

\* the handler of request r waits for a promise
Waits(r, rq) ==
    /\ req' = [req EXCEPT ![r] = rq]
    /\ last' = NoReq

notificationOf(rq) ==
    IF rq.kind = "POST"
    THEN analyticsNotification(rq.updated.id, "CustomerCreated")
    ELSE analyticsNotification(rq.customerId, "CustomerPreferencesUpdated")

(***************************************************************************)
(* The secondary notifier of the "mqtt" variant.                           *)
(***************************************************************************)
\* publishAnalyticsNotification up to its return: mqtt.connect, the flag, the
\* timer and the two once-handlers
openClient(event) ==
    [NoClient EXCEPT !.open = TRUE, !.timeout = "armed", !.payload = event]

\* a faulty variant: done() sets the flag and leaves the client open
done_NoEnd(c, by) == IF c.completed THEN c ELSE [c EXCEPT !.completed = TRUE]

\* a faulty variant: done() without the guard flag
done_NoGuard(c, by) == [c EXCEPT !.completed = TRUE, !.ends = @ + 1, !.endedBy = by]

\* done(): the guard flag, then client.end(true); `by` records the caller
done(c, by) ==
    IF c.completed THEN c
    ELSE [c EXCEPT !.completed = TRUE, !.ends = @ + 1, !.endedBy = by]

\* a faulty variant: the timer is left armed
clearTimeout_Skipped(c) == c

\* clearTimeout(timeout): a timer that has fired is not changed by it
clearTimeout(c) == IF c.timeout = "armed" THEN [c EXCEPT !.timeout = "cleared"] ELSE c

(***************************************************************************)
(* ensureProducerConnected and what follows it in an HTTP handler.  Both   *)
(* operators describe the handler `r` from a call of a publish function to *)
(* the next promise that is not settled yet; `rq` is the handler's record  *)
(* so far.                                                                 *)
(***************************************************************************)
\* publishCustomerProfileUpdated(updated), called by PATCH
profileStage(r, rq) ==
    IF kafkaConnected
    THEN /\ Waits(r, [rq EXCEPT !.pc = "sendProfile", !.profileSends = @ + 1])
         /\ connectCalls' = connectCalls
    ELSE /\ Waits(r, [rq EXCEPT !.pc = "connectProfile"])
         /\ connectCalls' = connectCalls + 1

\* a faulty variant: the handler responds without notifying analytics
analyticsStage_Skipped(r, rq, connected) ==
    /\ Answered(r, finish(rq))
    /\ UNCHANGED <<connectCalls, mqtt>>

\* publishAnalyticsNotification(...) of POST and PATCH and the response after
\* it; `connected` is kafkaConnected as the caller leaves it
analyticsStage(r, rq, connected) ==
    CASE variant = "kafka" ->
            /\ Answered(r, finish(rq))
            /\ UNCHANGED <<connectCalls, mqtt>>
      [] variant = "mqtt" ->
            /\ Answered(r, finish([rq EXCEPT !.analyticsCalls = @ + 1]))
            /\ mqtt' = [mqtt EXCEPT ![r] = openClient(notificationOf(rq))]
            /\ UNCHANGED connectCalls
      [] variant = "consumer" ->
            /\ mqtt' = mqtt
            /\ IF connected
               THEN /\ Waits(r, [rq EXCEPT !.pc = "sendAnalytics",
                                           !.analyticsCalls = @ + 1])
                    /\ connectCalls' = connectCalls
               ELSE /\ Waits(r, [rq EXCEPT !.pc = "connectAnalytics",
                                           !.analyticsCalls = @ + 1])
                    /\ connectCalls' = connectCalls + 1

(***************************************************************************)
(* The HTTP routes.                                                        *)
(***************************************************************************)
\* a faulty variant: a read of an id that has no record stores the default
GetCustomer_StoresDefault(r) ==
    /\ Arrives(r)
    /\ \E customerId \in UrlIds :
         LET rq == [NoReq EXCEPT !.n = r, !.kind = "GET", !.customerId = customerId] IN
         IF isReserved(customerId)
         THEN /\ Answered(r, respond(rq, 404, NoBody))
              /\ customerStore' = customerStore
         ELSE /\ Answered(r, respond(rq, 200,
                               JsonCustomer(getOrDefault(customerStore, customerId))))
              /\ customerStore' = storeSet(customerStore, customerId,
                                           getOrDefault(customerStore, customerId))
    /\ UNCHANGED <<variant, lastWrite, kafkaConnected, connectCalls,
                   startPc, exitCode, uuids, mqtt, sync, profileUpdatedTopic,
                   replyTopic>>

\* app.get('/customers/:customerId')
GetCustomer(r) ==
    /\ Arrives(r)
    /\ \E customerId \in UrlIds :
         LET rq == [NoReq EXCEPT !.n = r, !.kind = "GET", !.customerId = customerId] IN
         Answered(r, IF isReserved(customerId) THEN respond(rq, 404, NoBody)
                     ELSE respond(rq, 200,
                            JsonCustomer(getOrDefault(customerStore, customerId))))
    /\ UNCHANGED <<variant, customerStore, lastWrite, kafkaConnected, connectCalls,
                   startPc, exitCode, uuids, mqtt, sync, profileUpdatedTopic,
                   replyTopic>>

\* app.get('/customers/:customerId/preferences')
GetCustomerPreferences(r) ==
    /\ variant \in {"mqtt", "consumer"}
    /\ Arrives(r)
    /\ \E customerId \in UrlIds :
         LET rq == [NoReq EXCEPT !.n = r, !.kind = "GETPREFS",
                                 !.customerId = customerId] IN
         Answered(r, IF isReserved(customerId) THEN respond(rq, 404, NoBody)
                     ELSE respond(rq, 200,
                            JsonPreferences(
                              getOrDefault(customerStore, customerId).preferences)))
    /\ UNCHANGED <<variant, customerStore, lastWrite, kafkaConnected, connectCalls,
                   startPc, exitCode, uuids, mqtt, sync, profileUpdatedTopic,
                   replyTopic>>

\* app.post('/customers'), to its first pending promise or its response
PostCustomers(r) ==
    /\ variant \in {"mqtt", "consumer"}
    /\ Arrives(r)
    /\ \E payload \in PostPayloads :
         LET rq == [NoReq EXCEPT !.n = r, !.kind = "POST", !.payload = payload] IN
         IF InvalidCustomerPayload(payload)
         THEN /\ Answered(r, respond(rq, 400, JsonError))
              /\ UNCHANGED <<customerStore, lastWrite, uuids, connectCalls, mqtt>>
         ELSE LET customer == newCustomer(randomUUID(uuids + 1), payload) IN
              /\ uuids' = uuids + 1
              /\ customerStore' = storeSet(customerStore, customer.id, customer)
              /\ lastWrite' = storeSet(lastWrite, customer.id,
                                       [by |-> r, kind |-> "POST", payload |-> payload])
              /\ analyticsStage(r, [rq EXCEPT !.customerId = customer.id,
                                              !.updated = customer],
                                kafkaConnected)
    /\ UNCHANGED <<variant, kafkaConnected, startPc, exitCode, sync,
                   profileUpdatedTopic, replyTopic>>

\* app.patch('/customers/:customerId/preferences'), to its first pending promise
PatchPreferences(r) ==
    /\ Arrives(r)
    /\ \E customerId \in UrlIds, payload \in PatchPayloads :
         LET rq == [NoReq EXCEPT !.n = r, !.kind = "PATCH", !.customerId = customerId,
                                 !.payload = payload] IN
         IF InvalidPreferencesPayload(payload)
         THEN /\ Answered(r, respond(rq, 400, JsonError))
              /\ UNCHANGED <<customerStore, lastWrite, connectCalls>>
         ELSE LET existing == getOrDefault(customerStore, customerId)
                  updated == updatedCustomer(existing, payload)
              IN /\ customerStore' = storeSet(customerStore, customerId, updated)
                 /\ lastWrite' = storeSet(lastWrite, customerId,
                                     [by |-> r, kind |-> "PATCH", payload |-> payload])
                 /\ profileStage(r, [rq EXCEPT !.updated = updated,
                                               !.event = profileUpdatedEvent(updated)])
    /\ UNCHANGED <<variant, kafkaConnected, startPc, exitCode, uuids, mqtt, sync,
                   profileUpdatedTopic, replyTopic>>

\* producer.send of the profile-updated event settles; the catch of PATCH logs
\* a rejection and the handler goes on
ProfileSendSettles(r) ==
    /\ req[r].pc = "sendProfile"
    /\ \E ok \in BOOLEAN :
         /\ profileUpdatedTopic' =
              IF ok THEN profileUpdatedTopic \cup {req[r].event} ELSE profileUpdatedTopic
         /\ analyticsStage(r, [req[r] EXCEPT !.profileOutcome =
                                               IF ok THEN "sent" ELSE "failed"],
                           kafkaConnected)
    /\ UNCHANGED <<variant, customerStore, lastWrite, kafkaConnected, startPc,
                   exitCode, uuids, sync, replyTopic>>

\* producer.send of the analytics notification settles ("consumer" variant);
\* the catch logs a rejection and the handler responds
AnalyticsSendSettles(r) ==
    /\ req[r].pc = "sendAnalytics"
    /\ \E ok \in BOOLEAN :
         Answered(r, finish([req[r] EXCEPT !.analyticsOutcome =
                                             IF ok THEN "sent" ELSE "failed"]))
    /\ UNCHANGED <<variant, customerStore, lastWrite, kafkaConnected, connectCalls,
                   startPc, exitCode, uuids, mqtt, sync, profileUpdatedTopic,
                   replyTopic>>

(***************************************************************************)
(* The sync-request consumer of the "consumer" variant.                    *)
(***************************************************************************)
\* message values: none or '', text that is no JSON, and JSON objects
RawMessages ==
    { Raw("empty", JsUndefined, JsUndefined, JsUndefined),
      Raw("text", JsUndefined, JsUndefined, JsUndefined),
      Raw("json", JsString(Req1), JsUndefined, JsString(Stamp)),
      Raw("json", JsNumber, JsString(Cust1), JsString(Stamp)),
      Raw("json", JsString(Req1), JsString(Cust1), JsUndefined),
      Raw("json", JsString(Req2), JsString(Cust1), JsString(Stamp)) }
    \cup { Raw("json", JsString(Req1), JsString(id), JsString(Stamp)) : id \in UrlIds }

\* a faulty variant: the parser without its test of requestedAt
parsePreferenceSyncRequest_NoRequestedAt(raw) ==
    IF \/ raw.kind # "json"
       \/ typeof(raw.requestId) # "string"
       \/ typeof(raw.customerId) # "string"
    THEN [null |-> TRUE, request |-> NoRequest]
    ELSE [null |-> FALSE,
          request |-> [requestId |-> raw.requestId.s,
                       customerId |-> raw.customerId.s,
                       requestedAt |-> raw.requestedAt.s]]

\* parsePreferenceSyncRequest: null covers the throw of JSON.parse as well
parsePreferenceSyncRequest(raw) ==
    IF \/ raw.kind # "json"
       \/ typeof(raw.requestId) # "string"
       \/ typeof(raw.customerId) # "string"
       \/ typeof(raw.requestedAt) # "string"
    THEN [null |-> TRUE, request |-> NoRequest]
    ELSE [null |-> FALSE,
          request |-> [requestId |-> raw.requestId.s,
                       customerId |-> raw.customerId.s,
                       requestedAt |-> raw.requestedAt.s]]

\* buildPreferenceSyncReply, reading `store` when it is called
buildPreferenceSyncReply(request, store) ==
    LET found == request.customerId \in DOMAIN store IN
    [requestId |-> request.requestId,
     customerId |-> request.customerId,
     status |-> IF found THEN "SUCCESS" ELSE "NOT_FOUND",
     preferenceVersion |-> 1,
     hasPreferences |-> found,
     preferences |->
        IF found
        THEN [newsletter |->
                StringOfBoolean(store[request.customerId].preferences.newsletter),
              language |-> store[request.customerId].preferences.language]
        ELSE NoPreferences]

\* publishPreferenceSyncReply(buildPreferenceSyncReply(request)) up to its
\* first pending promise; `connected` is kafkaConnected as the caller leaves it
replyStage(sy, connected) ==
    LET withReply ==
          [sy EXCEPT !.reply = buildPreferenceSyncReply(sy.request, customerStore)]
    IN IF connected
       THEN /\ sync' = [withReply EXCEPT !.pc = "sendReply"]
            /\ connectCalls' = connectCalls
       ELSE /\ sync' = [withReply EXCEPT !.pc = "connectReply"]
            /\ connectCalls' = connectCalls + 1

\* handlePreferenceSyncRequest, from the delivery of a message to its first
\* pending promise or its return
HandlePreferenceSyncRequest ==
    /\ last' = NoReq
    /\ variant = "consumer"
    /\ Listening
    /\ sync.pc = "idle"
    /\ sync.handled < MaxMsgs
    /\ \E raw \in RawMessages :
         LET parsed == parsePreferenceSyncRequest(raw)
             sy == [NoSync EXCEPT !.handled = sync.handled + 1, !.raw = raw]
         IN IF raw.kind = "empty" \/ parsed.null
            THEN /\ sync' = [sy EXCEPT !.outcome = "dropped"]
                 /\ connectCalls' = connectCalls
            ELSE LET customer == getOrDefault(customerStore, parsed.request.customerId)
                     sy1 == [sy EXCEPT
                               !.request = parsed.request,
                               !.customer = customer,
                               !.lookedUpStored =
                                  parsed.request.customerId \in DOMAIN customerStore,
                               !.event = profileUpdatedEvent(customer)]
                 IN IF kafkaConnected
                    THEN /\ sync' = [sy1 EXCEPT !.pc = "sendProfile"]
                         /\ connectCalls' = connectCalls
                    ELSE /\ sync' = [sy1 EXCEPT !.pc = "connectProfile"]
                         /\ connectCalls' = connectCalls + 1
    /\ UNCHANGED <<variant, customerStore, lastWrite, kafkaConnected, startPc,
                   exitCode, uuids, req, mqtt, profileUpdatedTopic, replyTopic>>

\* a faulty variant: a rejection of the send is swallowed and the reply follows
SyncProfileSendSettles_ReplyAnyway ==
    /\ last' = NoReq
    /\ sync.pc = "sendProfile"
    /\ \E ok \in BOOLEAN :
         /\ profileUpdatedTopic' =
              IF ok THEN profileUpdatedTopic \cup {sync.event} ELSE profileUpdatedTopic
         /\ replyStage(sync, kafkaConnected)
    /\ UNCHANGED <<variant, customerStore, lastWrite, kafkaConnected, startPc,
                   exitCode, uuids, req, mqtt, replyTopic>>

\* producer.send of the handler's profile-updated event settles; a rejection
\* leaves handlePreferenceSyncRequest as a rejection
SyncProfileSendSettles ==
    /\ last' = NoReq
    /\ sync.pc = "sendProfile"
    /\ \E ok \in BOOLEAN :
         IF ok
         THEN /\ profileUpdatedTopic' = profileUpdatedTopic \cup {sync.event}
              /\ replyStage(sync, kafkaConnected)
         ELSE /\ sync' = [sync EXCEPT !.pc = "idle", !.outcome = "threw"]
              /\ UNCHANGED <<profileUpdatedTopic, connectCalls>>
    /\ UNCHANGED <<variant, customerStore, lastWrite, kafkaConnected, startPc,
                   exitCode, uuids, req, mqtt, replyTopic>>

\* producer.send of the reply settles
SyncReplySendSettles ==
    /\ last' = NoReq
    /\ sync.pc = "sendReply"
    /\ \E ok \in BOOLEAN :
         IF ok
         THEN /\ replyTopic' = replyTopic \cup {sync.reply}
              /\ sync' = [sync EXCEPT !.pc = "idle", !.outcome = "replied"]
         ELSE /\ sync' = [sync EXCEPT !.pc = "idle", !.outcome = "threw"]
              /\ replyTopic' = replyTopic
    /\ UNCHANGED <<variant, customerStore, lastWrite, kafkaConnected, connectCalls,
                   startPc, exitCode, uuids, req, mqtt, profileUpdatedTopic>>

(***************************************************************************)
(* await producer.connect() inside ensureProducerConnected settles for the *)
(* task that called it: HTTP handler t, or the sync handler when t = 0.    *)
(* Only a fulfilled connect sets the flag.                                 *)
(***************************************************************************)
ProducerConnectSettles(t) ==
    /\ exitCode = 0
    /\ \E ok \in BOOLEAN :
         /\ kafkaConnected' = (kafkaConnected \/ ok)
         /\ IF t = 0
            THEN /\ sync.pc \in {"connectProfile", "connectReply"}
                 /\ sync' = [sync EXCEPT
                               !.pc = CASE ~ok -> "idle"
                                        [] ok /\ sync.pc = "connectProfile" -> "sendProfile"
                                        [] ok /\ sync.pc = "connectReply" -> "sendReply",
                               !.outcome = IF ok THEN @ ELSE "threw"]
                 /\ UNCHANGED <<req, mqtt, connectCalls>>
                 /\ last' = NoReq
            ELSE /\ req[t].pc \in {"connectProfile", "connectAnalytics"}
                 /\ CASE ok /\ req[t].pc = "connectProfile" ->
                           /\ Waits(t, [req[t] EXCEPT !.pc = "sendProfile",
                                                      !.profileSends = @ + 1])
                           /\ UNCHANGED <<connectCalls, mqtt>>
                      [] ~ok /\ req[t].pc = "connectProfile" ->
                           analyticsStage(t, [req[t] EXCEPT !.profileOutcome = "failed"],
                                          kafkaConnected)
                      [] ok /\ req[t].pc = "connectAnalytics" ->
                           /\ Waits(t, [req[t] EXCEPT !.pc = "sendAnalytics"])
                           /\ UNCHANGED <<connectCalls, mqtt>>
                      [] ~ok /\ req[t].pc = "connectAnalytics" ->
                           /\ Answered(t, finish([req[t] EXCEPT
                                                    !.analyticsOutcome = "failed"]))
                           /\ UNCHANGED <<connectCalls, mqtt>>
                 /\ sync' = sync
    /\ UNCHANGED <<variant, customerStore, lastWrite, startPc, exitCode, uuids,
                   profileUpdatedTopic, replyTopic>>

(***************************************************************************)
(* The events of one MQTT client.  The library decides their order; each   *)
(* once-handler runs at most once, the publish callback runs at most once  *)
(* and only for a publish that was issued, and the timer fires only while  *)
(* it is armed.  A broker cannot acknowledge a publish on a connection     *)
(* that was ended, so a callback after the end carries an error.           *)
(***************************************************************************)
\* the setTimeout callback
MqttTimeout(r) ==
    /\ last' = NoReq
    /\ mqtt[r].open
    /\ mqtt[r].timeout = "armed"
    /\ mqtt' = [mqtt EXCEPT ![r] = done([mqtt[r] EXCEPT !.timeout = "fired"], "timer")]
    /\ UNCHANGED <<variant, customerStore, lastWrite, kafkaConnected, connectCalls,
                   startPc, exitCode, uuids, req, sync, profileUpdatedTopic,
                   replyTopic>>

\* client.once('connect'): client.publish is called
MqttConnect(r) ==
    /\ last' = NoReq
    /\ mqtt[r].open
    /\ ~mqtt[r].connectSeen
    /\ mqtt' = [mqtt EXCEPT ![r].connectSeen = TRUE, ![r].publish = "pending"]
    /\ UNCHANGED <<variant, customerStore, lastWrite, kafkaConnected, connectCalls,
                   startPc, exitCode, uuids, req, sync, profileUpdatedTopic,
                   replyTopic>>

\* the callback of client.publish
MqttPublishCallback(r) ==
    /\ last' = NoReq
    /\ mqtt[r].open
    /\ mqtt[r].publish = "pending"
    /\ \E error \in BOOLEAN :
         /\ ~error => ~mqtt[r].completed
         /\ mqtt' = [mqtt EXCEPT ![r] =
                       done(clearTimeout([mqtt[r] EXCEPT
                              !.publish = IF error THEN "error" ELSE "acked"]),
                            "publish")]
    /\ UNCHANGED <<variant, customerStore, lastWrite, kafkaConnected, connectCalls,
                   startPc, exitCode, uuids, req, sync, profileUpdatedTopic,
                   replyTopic>>

\* client.once('error')
MqttError(r) ==
    /\ last' = NoReq
    /\ mqtt[r].open
    /\ ~mqtt[r].errorSeen
    /\ mqtt' = [mqtt EXCEPT ![r] =
                  done(clearTimeout([mqtt[r] EXCEPT !.errorSeen = TRUE]), "error")]
    /\ UNCHANGED <<variant, customerStore, lastWrite, kafkaConnected, connectCalls,
                   startPc, exitCode, uuids, req, sync, profileUpdatedTopic,
                   replyTopic>>

(***************************************************************************)
(* start() of the "consumer" variant: each await settles in turn, and a    *)
(* rejection reaches the catch, which exits with status 1.                 *)
(***************************************************************************)
\* a faulty variant: start() goes on after a step that failed
startStep_IgnoreFailure(ok, next) == startPc' = next /\ exitCode' = exitCode

startStep(ok, next) ==
    IF ok THEN startPc' = next /\ exitCode' = exitCode
    ELSE startPc' = "exited" /\ exitCode' = 1

\* await ensureProducerConnected(), then consumer.connect() is called
StartProducerConnectSettles ==
    /\ last' = NoReq
    /\ startPc = "producerConnect"
    /\ \E ok \in BOOLEAN :
         /\ kafkaConnected' = ok
         /\ startStep(ok, "consumerConnect")
    /\ UNCHANGED <<variant, customerStore, lastWrite, connectCalls, uuids, req, mqtt, sync, profileUpdatedTopic, replyTopic>>

\* await consumer.connect(), then consumer.subscribe(...) is called
StartConsumerConnectSettles ==
    /\ last' = NoReq
    /\ startPc = "consumerConnect"
    /\ \E ok \in BOOLEAN : startStep(ok, "consumerSubscribe")
    /\ UNCHANGED <<variant, customerStore, lastWrite, kafkaConnected, connectCalls,
                   uuids, req, mqtt, sync, profileUpdatedTopic, replyTopic>>

\* await consumer.subscribe(...), then consumer.run(...) is called
StartConsumerSubscribeSettles ==
    /\ last' = NoReq
    /\ startPc = "consumerSubscribe"
    /\ \E ok \in BOOLEAN : startStep(ok, "consumerRun")
    /\ UNCHANGED <<variant, customerStore, lastWrite, kafkaConnected, connectCalls,
                   uuids, req, mqtt, sync, profileUpdatedTopic, replyTopic>>

\* await consumer.run(...), then app.listen(...) is called
StartConsumerRunSettles ==
    /\ last' = NoReq
    /\ startPc = "consumerRun"
    /\ \E ok \in BOOLEAN : startStep(ok, "listening")
    /\ UNCHANGED <<variant, customerStore, lastWrite, kafkaConnected, connectCalls,
                   uuids, req, mqtt, sync, profileUpdatedTopic, replyTopic>>

(***************************************************************************)
(* The specification.                                                      *)
(***************************************************************************)
Next ==
    \/ \E r \in Reqs : GetCustomer(r)
    \/ \E r \in Reqs : GetCustomerPreferences(r)
    \/ \E r \in Reqs : PostCustomers(r)
    \/ \E r \in Reqs : PatchPreferences(r)
    \/ \E r \in Reqs : ProfileSendSettles(r)
    \/ \E r \in Reqs : AnalyticsSendSettles(r)
    \/ \E t \in 0..MaxReqs : ProducerConnectSettles(t)
    \/ \E r \in Reqs : MqttTimeout(r)
    \/ \E r \in Reqs : MqttConnect(r)
    \/ \E r \in Reqs : MqttPublishCallback(r)
    \/ \E r \in Reqs : MqttError(r)
    \/ HandlePreferenceSyncRequest
    \/ SyncProfileSendSettles
    \/ SyncReplySendSettles
    \/ StartProducerConnectSettles
    \/ StartConsumerConnectSettles
    \/ StartConsumerSubscribeSettles
    \/ StartConsumerRunSettles

Spec == Init /\ [][Next]_vars

\* the routes and promises of index.ts
NextKafka ==
    \/ \E r \in Reqs : GetCustomer(r)
    \/ \E r \in Reqs : PatchPreferences(r)
    \/ \E r \in Reqs : ProfileSendSettles(r)
    \/ \E t \in 0..MaxReqs : ProducerConnectSettles(t)

\* those of part_001
NextMqtt ==
    \/ \E r \in Reqs : GetCustomer(r)
    \/ \E r \in Reqs : GetCustomerPreferences(r)
    \/ \E r \in Reqs : PostCustomers(r)
    \/ \E r \in Reqs : PatchPreferences(r)
    \/ \E r \in Reqs : ProfileSendSettles(r)
    \/ \E t \in 0..MaxReqs : ProducerConnectSettles(t)
    \/ \E r \in Reqs : MqttTimeout(r)
    \/ \E r \in Reqs : MqttConnect(r)
    \/ \E r \in Reqs : MqttPublishCallback(r)
    \/ \E r \in Reqs : MqttError(r)

\* those of index.js:62-330, where start() has connected the producer before
\* any handler runs
NextConsumer ==
    \/ \E r \in Reqs : GetCustomer(r)
    \/ \E r \in Reqs : GetCustomerPreferences(r)
    \/ \E r \in Reqs : PostCustomers(r)
    \/ \E r \in Reqs : PatchPreferences(r)
    \/ \E r \in Reqs : ProfileSendSettles(r)
    \/ \E r \in Reqs : AnalyticsSendSettles(r)
    \/ HandlePreferenceSyncRequest
    \/ SyncProfileSendSettles
    \/ SyncReplySendSettles
    \/ StartProducerConnectSettles
    \/ StartConsumerConnectSettles
    \/ StartConsumerSubscribeSettles
    \/ StartConsumerRunSettles

SpecKafka == InitKafka /\ [][NextKafka]_vars
SpecMqtt == InitMqtt /\ [][NextMqtt]_vars
SpecConsumer == InitConsumer /\ [][NextConsumer]_vars

\* part_001 with timers that fire: a timer that was set and is not cleared
\* runs its callback after its 1500 ms
SpecMqttFair == SpecMqtt /\ \A r \in Reqs : WF_vars(MqttTimeout(r))

(***************************************************************************)
(* The claims.                                                             *)
(***************************************************************************)
InFlight(r) == req[r].pc \notin {"idle", "gone"}

\* the publish-completion callback of a client has run
PublishCallbackRan(c) == c.publish \in {"acked", "error"}

\* C1: producer.connect() is invoked at most once in the lifetime of the
\* process, under any interleaving of the handlers that call
\* ensureProducerConnected, and never again after a failure.
C1_ConnectAtMostOnce == connectCalls <= 1

\* C2: the reply to a valid sync request has status SUCCESS exactly when the
\* customer was in the store at the handler's lookup; for an id not stored
\* then, the profile-updated event is the synthesized default's and the reply
\* has the request's requestId and customerId, NOT_FOUND and no preferences.
C2_StatusFromLookup ==
    sync.outcome = "replied" =>
        /\ sync.reply.requestId = sync.request.requestId
        /\ sync.reply.customerId = sync.request.customerId
        /\ (sync.reply.status = "SUCCESS") = sync.lookedUpStored
        /\ (sync.reply.status = "NOT_FOUND") = ~sync.lookedUpStored
        /\ ~sync.lookedUpStored =>
              /\ sync.event = profileUpdatedEvent(defaultCustomer(sync.request.customerId))
              /\ sync.event \in profileUpdatedTopic
              /\ ~sync.reply.hasPreferences

\* the first of two PATCH requests for one id has its event published after
\* the second has overwritten the stored record
PatchRace(id) ==
    /\ id \in DOMAIN customerStore
    /\ lastWrite[id].by = 2
    /\ lastWrite[id].kind = "PATCH"
    /\ req[1].kind = "PATCH"
    /\ req[1].customerId = id
    /\ req[1].profileOutcome = "sent"
    /\ req[1].updated # customerStore[id]

\* C3 as stated: in the race of two PATCH requests for one id, a published
\* profile-updated event declares a (customerId, tier) that is not the stored
\* record's.
C3_RaceMismatch ==
    \A id \in UrlIds :
        PatchRace(id) =>
            \E e \in profileUpdatedTopic :
                /\ e.customerId = id
                /\ e.tier # customerStore[id].tier

\* C3 as amended: under every interleaving, each published profile-updated
\* event declares the customerId and tier of the record stored for its id (the
\* race shows in the preferences only, which the event does not carry), and
\* the event of a PATCH is for a stored id.
C3_EventsMatchStore ==
    /\ \A e \in profileUpdatedTopic :
          e.customerId \in DOMAIN customerStore =>
              /\ customerStore[e.customerId].id = e.customerId
              /\ customerStore[e.customerId].tier = e.tier
    /\ \A r \in Reqs :
          (req[r].kind = "PATCH" /\ req[r].profileOutcome = "sent") =>
              /\ req[r].event \in profileUpdatedTopic
              /\ req[r].event.customerId \in DOMAIN customerStore

C3_Witness == \E id \in UrlIds : PatchRace(id)

\* C4: in every invocation of the secondary notifier, under any order of its
\* timer, connect, publish-callback and error events, client.end(true) is
\* executed at most once.
C4_EndAtMostOnce == \A r \in Reqs : mqtt[r].ends <= 1

\* the timer, the publish callback and the error handler have all called done()
C4_Witness ==
    \E r \in Reqs :
        /\ mqtt[r].timeout = "fired"
        /\ PublishCallbackRan(mqtt[r])
        /\ mqtt[r].errorSeen
        /\ mqtt[r].ends = 1

\* C5 as stated: once an invocation of the notifier has completed, exactly one
\* of the publish-completion callback and the connect-error handler has run.
C5_ExactlyOnePath ==
    \A r \in Reqs :
        mqtt[r].completed => (PublishCallbackRan(mqtt[r]) # mqtt[r].errorSeen)

\* C5 as amended: none, one or both of the two completion paths may run in an
\* invocation (none when the timer fires first, both when the client reports
\* an error after it connected); the publish-completion callback runs only
\* after a connect, and the one teardown is made by whichever of the timer
\* and the two paths runs first, the timer only if neither path ran before it.
C5_FirstPathTearsDown ==
    \A r \in Reqs :
        LET c == mqtt[r] IN
        /\ PublishCallbackRan(c) => c.connectSeen
        /\ c.completed = (c.timeout = "fired" \/ PublishCallbackRan(c) \/ c.errorSeen)
        /\ c.ends = (IF c.completed THEN 1 ELSE 0)
        /\ c.timeout = "fired" => c.endedBy = "timer"
        /\ c.endedBy = "publish" => PublishCallbackRan(c)
        /\ c.endedBy = "error" => c.errorSeen

\* both completion paths have run in one invocation
C5_Witness ==
    \E r \in Reqs :
        /\ PublishCallbackRan(mqtt[r])
        /\ mqtt[r].errorSeen
        /\ mqtt[r].timeout = "cleared"
        /\ mqtt[r].ends = 1

\* what the contract calls a valid body of PATCH and of POST
ValidPatchBody(p) == p.newsletter.t = "boolean" /\ p.language.t = "string"
ValidPostBody(p) ==
    /\ p.email.t = "string"
    /\ \E i \in DOMAIN p.email.s : p.email.s[i] = "@"
    /\ p.tier.t = "string"
    /\ p.tier.s \in {STANDARD, GOLD, PLATINUM}
    /\ p.hasPreferences
    /\ p.newsletter.t = "boolean"
    /\ p.language.t = "string"

PreferencesOf(p) == [newsletter |-> p.newsletter, language |-> p.language]

\* the exchange the latest step answered
AnsweredKind(kind) == last.pc = "done" /\ last.kind = kind

\* C6: whatever fails downstream (the broker connection, a send of an event or
\* of a notification), a valid PATCH is answered 200 and a valid POST 201,
\* and the record the request stored is still stored when it is answered,
\* unless a later request has overwritten it.
C6_MutationSurvivesFailures ==
    /\ (AnsweredKind("PATCH") /\ ValidPatchBody(last.payload)) =>
          /\ last.status = 200
          /\ last.customerId \in DOMAIN customerStore
          /\ lastWrite[last.customerId].by = last.n =>
                customerStore[last.customerId].preferences = PreferencesOf(last.payload)
    /\ (AnsweredKind("POST") /\ ValidPostBody(last.payload)) =>
          /\ last.status = 201
          /\ last.customerId \in DOMAIN customerStore
          /\ lastWrite[last.customerId].by = last.n =>
                /\ customerStore[last.customerId].email = last.payload.email
                /\ customerStore[last.customerId].tier = last.payload.tier
                /\ customerStore[last.customerId].preferences = PreferencesOf(last.payload)
    /\ \A r \in Reqs :
          (InFlight(r) /\ req[r].kind \in {"PATCH", "POST"}) =>
              req[r].customerId \in DOMAIN customerStore

\* a PATCH is answered 200 after both of its publishes failed
C6_Witness ==
    /\ AnsweredKind("PATCH")
    /\ last.status = 200
    /\ last.profileOutcome = "failed"
    /\ last.analyticsOutcome = "failed"
    /\ customerStore[last.customerId].preferences = PreferencesOf(last.payload)

\* C7: GET /customers/:id and GET /customers/:id/preferences answer 404
\* exactly when the id is 'missing', a record stored under that id or not,
\* and 200 for every other id.
C7_MissingIsReserved ==
    (AnsweredKind("GET") \/ AnsweredKind("GETPREFS")) =>
        /\ (last.status = 404) = (last.customerId = Missing)
        /\ last.customerId # Missing => last.status = 200

\* a GET of 'missing' is answered 404 while a record is stored under it
C7_Witness ==
    /\ AnsweredKind("GETPREFS")
    /\ last.customerId = Missing
    /\ Missing \in DOMAIN customerStore
    /\ last.status = 404

\* C8: a valid PATCH replaces the stored preferences by the newsletter and
\* language of its body and answers 200 with exactly these; a later GET of the
\* preferences of that id, no other PATCH of the id between, returns them.
C8_PatchReplacesPreferences ==
    /\ \A id \in DOMAIN customerStore :
          lastWrite[id].kind = "PATCH" =>
              customerStore[id].preferences = PreferencesOf(lastWrite[id].payload)
    /\ (AnsweredKind("PATCH") /\ ValidPatchBody(last.payload)) =>
          /\ last.status = 200
          /\ last.body.kind = "preferences"
          /\ last.body.preferences = PreferencesOf(last.payload)
    /\ (AnsweredKind("GETPREFS") /\ last.customerId # Missing
           /\ last.customerId \in DOMAIN lastWrite
           /\ lastWrite[last.customerId].kind = "PATCH") =>
          /\ last.status = 200
          /\ last.body.kind = "preferences"
          /\ last.body.preferences = PreferencesOf(lastWrite[last.customerId].payload)

\* the preferences are read after the PATCH that set them was answered
C8_Witness ==
    /\ AnsweredKind("GETPREFS")
    /\ last.n = 2
    /\ req[1] = Gone
    /\ last.customerId \in DOMAIN lastWrite
    /\ lastWrite[last.customerId] =
          [by |-> 1, kind |-> "PATCH",
           payload |-> Body(JsUndefined, JsUndefined, FALSE, JsBoolean(FALSE),
                            JsString(FrFR))]
    /\ last.body.preferences =
          [newsletter |-> JsBoolean(FALSE), language |-> JsString(FrFR)]

\* the record a POST with body p and the drawn id stores
CreatedRecord(id, p) ==
    [id |-> id, email |-> p.email, tier |-> p.tier, preferences |-> PreferencesOf(p)]

C9_Answers ==
    /\ (AnsweredKind("POST") /\ ValidPostBody(last.payload)) =>
          /\ last.status = 201
          /\ last.body.kind = "customer"
          /\ last.body.customer = CreatedRecord(last.customerId, last.payload)
          /\ last.customerId \in DOMAIN customerStore
          /\ lastWrite[last.customerId].by = last.n =>
                customerStore[last.customerId] = last.body.customer
    /\ (AnsweredKind("GET") /\ last.customerId \in DOMAIN lastWrite
           /\ lastWrite[last.customerId].kind = "POST") =>
          /\ last.status = 200
          /\ last.body.customer =
                CreatedRecord(last.customerId, lastWrite[last.customerId].payload)

\* the handler of a valid POST has run in this step: `rq` is what it left
PostHandled(r, rq) ==
    /\ req[r].pc = "idle"
    /\ rq.n = r \/ req'[r] = rq
    /\ rq.kind = "POST"
    /\ ValidPostBody(rq.payload)

C9_StoresUnderFreshId ==
    \A r \in Reqs :
        \A rq \in {req'[r], last'} :
            (req'[r].pc # "idle" /\ PostHandled(r, rq)) =>
                /\ rq.customerId \notin DOMAIN customerStore
                /\ DOMAIN customerStore' = DOMAIN customerStore \cup {rq.customerId}
                /\ customerStore'[rq.customerId].id = rq.customerId

\* C9: a valid POST answers 201 with the record it built under an id that
\* differs from every key the store had, and stores the record under that id;
\* a later GET of the id returns this record.
C9_PostCreatesFreshRecord == []C9_Answers /\ [][C9_StoresUnderFreshId]_vars

\* a record made by the first request is read back by the second
C9_Witness ==
    /\ AnsweredKind("GET")
    /\ last.n = 2
    /\ last.customerId = randomUUID(1)
    /\ lastWrite[last.customerId].kind = "POST"
    /\ last.body.customer.tier = JsString(GOLD)
    /\ last.body.customer.id = randomUUID(1)

C10_Answers400 ==
    (AnsweredKind("POST") /\ ~ValidPostBody(last.payload)) =>
        /\ last.status = 400
        /\ last.body = JsonError

C10_StoreUntouched ==
    (last'.pc = "done" /\ last'.kind = "POST" /\ ~ValidPostBody(last'.payload)) =>
        customerStore' = customerStore

\* C10: a POST whose email is no string with an '@', whose tier is none of
\* STANDARD, GOLD and PLATINUM, whose newsletter is no boolean or whose
\* language is no string is answered 400, and the store is as it was.
C10_InvalidPostRejected == []C10_Answers400 /\ [][C10_StoreUntouched]_vars

\* a POST with a tier outside the three is refused while the store holds a record
C10_Witness ==
    /\ AnsweredKind("POST")
    /\ last.status = 400
    /\ last.payload.tier = JsString(SILVER)
    /\ DOMAIN customerStore # {}

C11_Answers400 ==
    (AnsweredKind("PATCH") /\ ~ValidPatchBody(last.payload)) =>
        /\ last.status = 400
        /\ last.body = JsonError

C11_StoreUntouched ==
    (last'.pc = "done" /\ last'.kind = "PATCH" /\ ~ValidPatchBody(last'.payload)) =>
        customerStore' = customerStore

\* C11: a PATCH whose newsletter is no boolean or whose language is no string
\* is answered 400, and the store, the preferences already stored for the id
\* included, is as it was.
C11_InvalidPatchRejected == []C11_Answers400 /\ [][C11_StoreUntouched]_vars

\* a PATCH with newsletter "yes" is refused for an id whose preferences an
\* earlier PATCH has stored
C11_Witness ==
    /\ AnsweredKind("PATCH")
    /\ last.status = 400
    /\ last.payload.newsletter = JsString(Yes)
    /\ last.customerId \in DOMAIN customerStore
    /\ lastWrite[last.customerId].kind = "PATCH"
    /\ customerStore[last.customerId].preferences =
          PreferencesOf(lastWrite[last.customerId].payload)

\* what the contract calls a well-formed sync-request message
WellFormedMessage(raw) ==
    /\ raw.kind = "json"
    /\ raw.requestId.t = "string"
    /\ raw.customerId.t = "string"
    /\ raw.requestedAt.t = "string"

\* the message handled last was malformed
MalformedHandled == sync.handled > 0 /\ ~WellFormedMessage(sync.raw)

C12_HandlerReturns ==
    MalformedHandled =>
        /\ sync.pc = "idle"
        /\ sync.outcome = "dropped"
        /\ sync.event = NoEvent
        /\ sync.reply = NoReply

C12_NothingPublished ==
    (sync'.handled # sync.handled /\ ~WellFormedMessage(sync'.raw)) =>
        /\ replyTopic' = replyTopic
        /\ profileUpdatedTopic' = profileUpdatedTopic
        /\ customerStore' = customerStore
        /\ connectCalls' = connectCalls

\* C12: a sync-request message that is empty, is no JSON, or lacks a string
\* requestId, customerId or requestedAt makes the handler return at once: no
\* reply and no profile-updated event is published for it, and the store is
\* as it was.
C12_MalformedDropped == []C12_HandlerReturns /\ [][C12_NothingPublished]_vars

\* a message without a customerId was handled and dropped
C12_Witness ==
    /\ sync.handled > 0
    /\ sync.raw = Raw("json", JsString(Req1), JsUndefined, JsString(Stamp))
    /\ sync.outcome = "dropped"
    /\ replyTopic = {}
    /\ profileUpdatedTopic = {}

\* the record the contract promises for an id that has none
SynthesizedRecord(id) ==
    [id |-> id,
     email |-> [t |-> "string", b |-> FALSE,
                s |-> id \o <<"@", "e", "x", "a", "m", "p", "l", "e", ".", "c", "o", "m">>],
     tier |-> [t |-> "string", b |-> FALSE,
               s |-> <<"S", "T", "A", "N", "D", "A", "R", "D">>],
     preferences |->
        [newsletter |-> [t |-> "boolean", b |-> TRUE, s |-> <<>>],
         language |-> [t |-> "string", b |-> FALSE, s |-> <<"e", "n", "-", "U", "S">>]]]

\* C13: for an id that is not 'missing' and has no record in the store, GET
\* /customers/:id answers 200 with the synthesized record: the id, the email
\* id@example.com, tier STANDARD, newsletter true and language en-US.
C13_UnknownIdSynthesized ==
    (AnsweredKind("GET") /\ last.customerId # Missing
        /\ last.customerId \notin DOMAIN customerStore) =>
        /\ last.status = 200
        /\ last.body.kind = "customer"
        /\ last.body.customer = SynthesizedRecord(last.customerId)

\* c1 is read while other records, but none for c1, are stored
C13_Witness ==
    /\ AnsweredKind("GET")
    /\ last.customerId = Cust1
    /\ Cust1 \notin DOMAIN customerStore
    /\ DOMAIN customerStore # {}
    /\ last.status = 200
    /\ last.body.customer.id = Cust1

\* what a request had attempted to publish when it was answered
Attempts(rq) == <<rq.profileSends, rq.analyticsCalls>>

\* C14: in index.js a valid PATCH makes exactly one attempt to publish a
\* profile-updated event and exactly one to publish an analytics notification,
\* a valid POST exactly one attempt for the notification and none for a
\* profile-updated event, and a request answered 400 or 404 and every GET
\* attempts nothing.
C14_AttemptsPerRequest ==
    /\ (AnsweredKind("PATCH") /\ ValidPatchBody(last.payload)) =>
          /\ Attempts(last) = <<1, 1>>
          /\ last.profileOutcome \in {"sent", "failed"}
          /\ last.analyticsOutcome \in {"sent", "failed"}
          /\ last.profileOutcome = "sent" => last.event \in profileUpdatedTopic
    /\ (AnsweredKind("POST") /\ ValidPostBody(last.payload)) =>
          /\ Attempts(last) = <<0, 1>>
          /\ last.profileOutcome = "none"
          /\ last.analyticsOutcome \in {"sent", "failed"}
    /\ (last.pc = "done" /\ (last.status \in {400, 404} \/ last.kind \in {"GET", "GETPREFS"})) =>
          /\ Attempts(last) = <<0, 0>>
          /\ last.profileOutcome = "none"
          /\ last.analyticsOutcome = "none"
    /\ \A r \in Reqs :
          /\ req[r].profileSends <= 1
          /\ req[r].analyticsCalls <= 1
          /\ InFlight(r) => req[r].kind \in {"PATCH", "POST"}
          /\ req[r].kind = "POST" => req[r].profileSends = 0

\* a valid PATCH and a valid POST have each been answered, the POST last
C14_Witness ==
    /\ variant = "consumer"
    /\ AnsweredKind("POST")
    /\ last.status = 201
    /\ Attempts(last) = <<0, 1>>
    /\ \E id \in DOMAIN lastWrite : lastWrite[id].kind = "PATCH"
    /\ \A r \in Reqs : req[r] = Gone

\* the awaits of start() in the order of the source, then app.listen
StartupOrder ==
    << "producerConnect", "consumerConnect", "consumerSubscribe", "consumerRun",
       "listening" >>

C15_ListenerLast ==
    /\ startPc \in {StartupOrder[i] : i \in 1..5} \cup {"exited"}
    /\ startPc = "listening" => (kafkaConnected /\ exitCode = 0)
    /\ (startPc = "exited") = (exitCode = 1)
    /\ exitCode \in {0, 1}
    /\ \A r \in Reqs : req[r].pc # "idle" => startPc = "listening"
    /\ last.pc = "done" => startPc = "listening"

C15_StepByStep ==
    startPc' # startPc =>
        \/ \E i \in 1..4 : startPc = StartupOrder[i] /\ startPc' = StartupOrder[i + 1]
                              /\ exitCode' = 0
        \/ \E i \in 1..4 : startPc = StartupOrder[i] /\ startPc' = "exited"
                              /\ exitCode' = 1

\* C15: in index.js the HTTP listener is started only after the producer has
\* connected and the sync consumer has connected, subscribed and started to
\* run, in this order; when one of these steps fails the process exits with
\* status 1 and the listener is never started.
C15_StartupOrder == []C15_ListenerLast /\ [][C15_StepByStep]_vars

\* the producer connected, a later step failed and the process has exited
C15_Witness ==
    /\ startPc = "exited"
    /\ exitCode = 1
    /\ kafkaConnected
    /\ \A r \in Reqs : req[r].pc = "idle"

\* C16: the two outputs of one valid sync request agree, whatever HTTP
\* requests run at the handler's await points: a NOT_FOUND reply goes with a
\* profile-updated event built from the synthesized default, a SUCCESS reply
\* with one built from the record the store held.
C16_OutputsAgree ==
    (sync.pc = "sendReply" \/ sync.outcome = "replied") =>
        /\ sync.reply.status = "NOT_FOUND" =>
              /\ ~sync.lookedUpStored
              /\ sync.customer = defaultCustomer(sync.request.customerId)
        /\ sync.reply.status = "SUCCESS" =>
              /\ sync.lookedUpStored
              /\ sync.event = profileUpdatedEvent(sync.customer)

\* the handler has passed its await of publishCustomerProfileUpdated
PastProfilePublish(sy) == sy.pc \in {"connectReply", "sendReply"} \/ sy.outcome = "replied"

C17_Correlated ==
    /\ PastProfilePublish(sync) =>
          /\ sync.event \in profileUpdatedTopic
          /\ sync.event.customerId = sync.request.customerId
          /\ sync.reply.requestId = sync.request.requestId
          /\ sync.reply.customerId = sync.request.customerId
    /\ sync.outcome = "replied" => sync.reply \in replyTopic
    /\ sync.outcome = "threw" => sync.pc = "idle"

C17_ReplyAfterProfile ==
    /\ replyTopic' # replyTopic =>
          /\ sync.pc = "sendReply"
          /\ sync.event \in profileUpdatedTopic
          /\ replyTopic' = replyTopic \cup {sync.reply}
          /\ sync.reply.requestId = sync.request.requestId
          /\ sync.reply.customerId = sync.request.customerId
    /\ (sync.pc = "sendProfile" /\ sync' # sync) =>
          \/ /\ PastProfilePublish(sync')
             /\ sync.event \in profileUpdatedTopic'
             /\ replyTopic' = replyTopic
          \/ /\ sync'.pc = "idle"
             /\ sync'.outcome = "threw"
             /\ sync'.reply = NoReply
             /\ replyTopic' = replyTopic
             /\ profileUpdatedTopic' = profileUpdatedTopic

\* C17: the reply to a valid sync request is published only after the publish
\* of the profile-updated event of that request has succeeded; when that
\* publish fails the handler publishes no reply and ends with the error; every
\* published reply has the requestId and customerId of the request handled.
C17_ReplyFollowsProfile == []C17_Correlated /\ [][C17_ReplyAfterProfile]_vars

\* two requests were answered, each reply under its own requestId
C17_Witness ==
    /\ sync.handled = 2
    /\ sync.outcome = "replied"
    /\ sync.request.requestId = Req2
    /\ sync.reply.requestId = Req2
    /\ \E reply \in replyTopic : reply.requestId = Req1

\* C18: every invocation of the secondary notifier ends its connection in the
\* end (client.end(true) is executed), whatever happens: a connect with a
\* publish that succeeds or fails, a connect error, a publish callback that
\* never comes, or no event at all; a timer that is not cleared fires.
C18_EventuallyTornDown == \A r \in Reqs : mqtt[r].open ~> (mqtt[r].ends = 1)

\* the client connected, the callback of its publish has not come, and the
\* timer has ended the connection
C18_Witness ==
    \E r \in Reqs :
        /\ mqtt[r].connectSeen
        /\ mqtt[r].publish = "pending"
        /\ ~mqtt[r].errorSeen
        /\ mqtt[r].timeout = "fired"
        /\ mqtt[r].endedBy = "timer"
        /\ mqtt[r].ends = 1

C19_LastWriterWins ==
    /\ \A id \in DOMAIN customerStore :
          lastWrite[id].kind = "PATCH" =>
              /\ ValidPatchBody(lastWrite[id].payload)
              /\ customerStore[id].id = id
              /\ customerStore[id].preferences = PreferencesOf(lastWrite[id].payload)
    /\ \A r \in Reqs :
          (InFlight(r) /\ req[r].kind = "PATCH") =>
              req[r].updated.preferences = PreferencesOf(req[r].payload)
    /\ (AnsweredKind("PATCH") /\ ValidPatchBody(last.payload)) =>
          /\ last.status = 200
          /\ last.body = [kind |-> "preferences", customer |-> NoCustomer,
                          preferences |-> PreferencesOf(last.payload)]

\* the handler of a valid PATCH has run in this step, up to its first await
PatchHandled(r) ==
    /\ req[r].pc = "idle"
    /\ req'[r].pc # "idle"
    /\ req'[r].kind = "PATCH"
    /\ ValidPatchBody(req'[r].payload)

C19_ReadModifyWrite ==
    \A r \in Reqs :
        PatchHandled(r) =>
            LET id == req'[r].customerId
                existing == IF id \in DOMAIN customerStore THEN customerStore[id]
                            ELSE SynthesizedRecord(id)
            IN /\ DOMAIN customerStore' = DOMAIN customerStore \cup {id}
               /\ customerStore'[id] =
                     [existing EXCEPT !.preferences = PreferencesOf(req'[r].payload)]
               /\ \A k \in DOMAIN customerStore \ {id} : customerStore'[k] = customerStore[k]

\* C19: a valid PATCH reads the record (or the default), builds the updated
\* record and writes it with no suspension between the read and the write, so
\* under any interleaving of PATCH requests for one id the stored preferences
\* are the payload of the PATCH that wrote last, and the 200 body of each
\* PATCH is its own payload, also when another PATCH has overwritten the
\* record before the response.
C19_PatchIsAtomic == []C19_LastWriterWins /\ [][C19_ReadModifyWrite]_vars

\* the first PATCH is answered after the second has overwritten its record
C19_Witness ==
    /\ AnsweredKind("PATCH")
    /\ last.n = 1
    /\ last.status = 200
    /\ lastWrite[last.customerId].by = 2
    /\ lastWrite[last.customerId].kind = "PATCH"
    /\ customerStore[last.customerId].preferences # last.body.preferences
    /\ last.body.preferences = PreferencesOf(last.payload)

C20_StoredMeansWritten ==
    /\ DOMAIN customerStore = DOMAIN lastWrite
    /\ \A id \in DOMAIN customerStore : lastWrite[id].kind \in {"POST", "PATCH"}
    /\ ((sync.pc = "sendReply" \/ sync.outcome = "replied")
          /\ sync.request.customerId \notin DOMAIN customerStore) =>
          /\ sync.reply.status = "NOT_FOUND"
          /\ ~sync.reply.hasPreferences

C20_ReadsLeaveStore ==
    /\ (last'.pc = "done" /\ last'.kind \in {"GET", "GETPREFS"}) =>
          customerStore' = customerStore
    /\ sync' # sync => customerStore' = customerStore

\* C20: the two GET routes and the handling of sync requests never change the
\* store: a synthesized default is not stored, so an id that was only read or
\* sync-requested has no record, and a later sync request for it is answered
\* NOT_FOUND again.
C20_ReadsNeverStore == []C20_StoredMeansWritten /\ [][C20_ReadsLeaveStore]_vars

\* c1 was sync-requested twice and answered NOT_FOUND both times
C20_Witness ==
    /\ sync.handled = 2
    /\ sync.outcome = "replied"
    /\ sync.request = [requestId |-> Req2, customerId |-> Cust1, requestedAt |-> Stamp]
    /\ sync.reply.status = "NOT_FOUND"
    /\ \E reply \in replyTopic :
          /\ reply.requestId = Req1
          /\ reply.customerId = Cust1
          /\ reply.status = "NOT_FOUND"
    /\ Cust1 \notin DOMAIN customerStore
    /\ \A r \in Reqs : req[r] = Gone

C21_Step ==
    /\ DOMAIN customerStore \subseteq DOMAIN customerStore'
    /\ \A k \in DOMAIN customerStore :
          /\ customerStore'[k].id = customerStore[k].id
          /\ customerStore'[k].email = customerStore[k].email
          /\ customerStore'[k].tier = customerStore[k].tier
    /\ \A r \in Reqs :
          PatchHandled(r) =>
              \A k \in DOMAIN customerStore' \ {req'[r].customerId} :
                  /\ k \in DOMAIN customerStore
                  /\ customerStore'[k] = customerStore[k]
    /\ customerStore' # customerStore =>
          \E id \in DOMAIN customerStore' :
              \A k \in DOMAIN customerStore' \ {id} :
                  k \in DOMAIN customerStore /\ customerStore'[k] = customerStore[k]

\* C21: no step removes a key from the store or changes the id, email or tier
\* of a record that is stored, and a valid PATCH changes nothing but the
\* preferences of the record of its id: the records of all other ids are as
\* they were.
C21_RecordsKeepIdentity == [][C21_Step]_vars

\* a record a POST made with tier GOLD and the newsletter off has had its
\* preferences replaced by a PATCH and is GOLD with its email still
C21_Witness ==
    /\ randomUUID(1) \in DOMAIN customerStore
    /\ lastWrite[randomUUID(1)].kind = "PATCH"
    /\ customerStore[randomUUID(1)].tier = JsString(GOLD)
    /\ customerStore[randomUUID(1)].email = JsString(ABCom)
    /\ customerStore[randomUUID(1)].preferences =
          [newsletter |-> JsBoolean(TRUE), language |-> JsString(DeDE)]

\* a record as the contract types it
WellFormedRecord(c) ==
    /\ c.email.t = "string"
    /\ \E i \in DOMAIN c.email.s : c.email.s[i] = "@"
    /\ c.tier.t = "string"
    /\ c.tier.s \in { <<"S", "T", "A", "N", "D", "A", "R", "D">>,
                      <<"G", "O", "L", "D">>,
                      <<"P", "L", "A", "T", "I", "N", "U", "M">> }
    /\ c.preferences.newsletter.t = "boolean"
    /\ c.preferences.language.t = "string"

\* C22: in every reachable state every record of the store is stored under
\* its own id and is well formed: its email is a string with an '@', its tier
\* is STANDARD, GOLD or PLATINUM, its newsletter a boolean and its language a
\* string.
C22_StoreWellFormed ==
    \A k \in DOMAIN customerStore :
        /\ customerStore[k].id = k
        /\ WellFormedRecord(customerStore[k])

\* the store holds a record a PATCH made from the default, under the reserved
\* id, and a record a POST made
C22_Witness ==
    /\ Missing \in DOMAIN customerStore
    /\ customerStore[Missing].tier = JsString(STANDARD)
    /\ randomUUID(1) \in DOMAIN customerStore
    /\ customerStore[randomUUID(1)].tier = JsString(PLATINUM)
    /\ lastWrite[randomUUID(1)].kind = "POST"

=============================================================================
